---- MODULE Spec2Model ----
(***************************************************************************)
(* The translation job pipeline: the job table and its stored procedures   *)
(* (supabase/migrations/001_create_translation_jobs.sql), the sequential   *)
(* translation worker (translation-worker edge function) and the document  *)
(* store it writes to.  Every await of the worker is one step, so that     *)
(* overlapping activations interleave exactly where the code can.  With    *)
(* it, the two request handlers that share the document store: the         *)
(* on-demand generator (data edge function) with its metadata file, and    *)
(* the read-only translation server with its cache, reached by the         *)
(* regeneration route of the site.  Last, the worker's pure functions on   *)
(* documents (extraction of the translatable strings, rebuilding, the      *)
(* content fingerprint) and the site's translation loader with its local   *)
(* cache.                                                                  *)
(***************************************************************************)
EXTENDS Integers, Sequences, FiniteSets, TLC

VARIABLES jobs, docs, en, worker, deviations, persistedJobs, marked,
          metadata, generator, translationCache, now, server,
          extraction, loader

vars == <<jobs, docs, en, worker, deviations, persistedJobs, marked,
          metadata, generator, translationCache, now, server,
          extraction, loader>>

(* The state of the worker and the job table, of the on-demand generator   *)
(* and of the translation server                                           *)
workerVars == <<jobs, worker, persistedJobs, marked>>
dataVars == <<metadata, generator>>
serveVars == <<translationCache, now, server>>
libVars == <<extraction, loader>>

----------------------------------------------------------------------------
(* Bounds of the model *)

MaxJobs == 2
NStrings == 16
MaxDeviations == 1

(* Program constants *)

batchSize == 15
MaxAttempts == 3
MaxJobsPerInvocation == 5
DoneThreshold == 70

Locales == {"sv", "es"}
HighPriorityLocales == {"sv", "de", "fr", "ja", "zh"}
Workers == {"w1", "w2"}
AllWorkers == {"w1", "w2", "w3", "w4"}

NoError == <<>>
NoMarker == [present |-> FALSE]
NoDoc == [present |-> FALSE]
NoJob == [job_id |-> 0, locale |-> "", source_hash |-> 0]
NoReview == [score |-> 0, status |-> "", notes |-> ""]

Min(a, b) == IF a < b THEN a ELSE b

----------------------------------------------------------------------------
(* The source document en.json at content version v, and its fingerprint.  *)
(* Texts are numbers: text k of version v is 100 * v + k.  lastUpdated is  *)
(* a reading of the clock, in minutes.                                     *)

SourceText(v, k) == 100 * v + k

SourceDocument(v) ==
    [present |-> TRUE,
     version |-> v,
     strings |-> [k \in 1..NStrings |-> SourceText(v, k)],
     meta |-> [locale |-> "en", lastUpdated |-> 0, qualityReview |-> NoReview],
     translationStatus |-> NoMarker]

generateHash(v) == v

----------------------------------------------------------------------------
(* The job table *)

NewJob(l, p, h, t) ==
    [locale |-> l, status |-> "pending", priority |-> p, source_hash |-> h,
     created_at |-> t, started |-> FALSE, completed |-> FALSE, attempts |-> 0,
     error_message |-> NoError, ai_review_status |-> "pending",
     ai_review_score |-> <<>>, ai_review_notes |-> <<>>]

JobIds(js) == 1..Len(js)

Eligible(js) ==
    {j \in JobIds(js) : js[j].status = "pending" /\ js[j].attempts < MaxAttempts}

Precedes(a, b) ==
    \/ a.priority < b.priority
    \/ a.priority = b.priority /\ a.created_at < b.created_at

(* The rows that ORDER BY priority, created_at LIMIT 1 may return: any     *)
(* eligible row that no other eligible row precedes.                       *)
get_next_translation_jobFirstPriority(js) ==
    {j \in Eligible(js) : js[j].priority = 1 /\ \A k \in Eligible(js) : ~Precedes(js[k], js[j])}

get_next_translation_job(js) ==
    {j \in Eligible(js) : \A k \in Eligible(js) : ~Precedes(js[k], js[j])}

update_translation_job_statusReprioritizing(js, job_id, new_status, error_msg) ==
    [js EXCEPT ![job_id] =
        [@ EXCEPT
            !.status = new_status,
            !.priority = IF new_status = "failed" THEN @ + 1 ELSE @,
            !.started = IF new_status = "processing" THEN TRUE ELSE @,
            !.completed = IF new_status \in {"completed", "failed"} THEN TRUE ELSE @,
            !.attempts = IF new_status = "processing" THEN @ + 1 ELSE @,
            !.error_message = IF error_msg # NoError THEN error_msg ELSE @]]

update_translation_job_status(js, job_id, new_status, error_msg) ==
    [js EXCEPT ![job_id] =
        [@ EXCEPT
            !.status = new_status,
            !.started = IF new_status = "processing" THEN TRUE ELSE @,
            !.completed = IF new_status \in {"completed", "failed"} THEN TRUE ELSE @,
            !.attempts = IF new_status = "processing" THEN @ + 1 ELSE @,
            !.error_message = IF error_msg # NoError THEN error_msg ELSE @]]

update_ai_review_status(js, job_id, review_status, review_score, review_notes) ==
    [js EXCEPT ![job_id] =
        [@ EXCEPT
            !.ai_review_status = review_status,
            !.ai_review_score = <<review_score>>,
            !.ai_review_notes = <<review_notes>>]]

----------------------------------------------------------------------------
(* The bulk translator.  A response of the text-generation service is      *)
(* [ok, items]: ok is response.ok, items the content split on the          *)
(* delimiter (<<>> for an empty content).  The translation of the text     *)
(* t into locale l is 1000 * LocaleCode(l) + t.  WellFormed is the         *)
(* response of a well-formed translator, TranslatorResponses the others:   *)
(* an HTTP error, an item short, an item too many.                         *)

Undefined == 0

LocaleCode(l) == IF l = "sv" THEN 1 ELSE 2

Translation(l, text) == 1000 * LocaleCode(l) + text

WellFormed(texts, l) ==
    [ok |-> TRUE, items |-> SubSeq([k \in 1..Len(texts) |-> Translation(l, texts[k])], 1, Len(texts))]

TranslatorResponses(wellFormed, l) ==
    {[ok |-> FALSE, items |-> <<>>],
     [ok |-> TRUE, items |-> SubSeq(wellFormed.items, 1, Len(wellFormed.items) - 1)],
     [ok |-> TRUE, items |-> Append(wellFormed.items, Translation(l, 0))]}

CountMismatch(texts, response) ==
    response.ok /\ response.items # <<>> /\ Len(response.items) # Len(texts)

translateTextBulkUnchecked(texts, targetLang, response) ==
    IF ~response.ok
    THEN [ok |-> FALSE, value |-> <<>>, error |-> <<"OpenAI API error">>]
    ELSE IF response.items = <<>>
    THEN [ok |-> FALSE, value |-> <<>>, error |-> <<"Empty translation response">>]
    ELSE [ok |-> TRUE, value |-> response.items, error |-> NoError]

translateTextBulk(texts, targetLang, response) ==
    IF ~response.ok
    THEN [ok |-> FALSE, value |-> <<>>, error |-> <<"OpenAI API error">>]
    ELSE IF response.items = <<>>
    THEN [ok |-> FALSE, value |-> <<>>, error |-> <<"Empty translation response">>]
    ELSE IF Len(response.items) # Len(texts)
    THEN [ok |-> FALSE, value |-> <<>>,
          error |-> <<"Translation count mismatch", Len(texts), Len(response.items)>>]
    ELSE [ok |-> TRUE, value |-> response.items, error |-> NoError]

----------------------------------------------------------------------------
(* The quality reviewer.  A response is [ok, text, json]: text is "json"   *)
(* when the content parses, "garbage" when it does not, "" when it is      *)
(* empty; json holds the parsed fields, <<>> for a missing one.            *)

NominalReview ==
    [ok |-> TRUE, text |-> "json",
     json |-> [score |-> <<70>>, status |-> <<"good">>, notes |-> <<"notes">>]]

ReviewerResponses ==
    {[ok |-> FALSE, text |-> "", json |-> [score |-> <<>>, status |-> <<>>, notes |-> <<>>]],
     [ok |-> TRUE, text |-> "garbage", json |-> [score |-> <<>>, status |-> <<>>, notes |-> <<>>]],
     [ok |-> TRUE, text |-> "json",
      json |-> [score |-> <<69>>, status |-> <<"needs_review">>, notes |-> <<"notes">>]],
     [ok |-> TRUE, text |-> "json",
      json |-> [score |-> <<95>>, status |-> <<"poor">>, notes |-> <<"notes">>]]}

OrElse(field, default) == IF field = <<>> THEN default ELSE field[1]

ReviewFailure(response) ==
    IF ~response.ok THEN "Review failed: OpenAI review API error"
    ELSE IF response.text = "" THEN "Review failed: Empty review response"
    ELSE "Review failed: JSON parse error"

reviewTranslationQualityRaising(originalTexts, translatedTexts, targetLang, response) ==
    IF response.ok /\ response.text = "json"
    THEN [raised |-> FALSE,
          score |-> OrElse(response.json.score, 0),
          notes |-> OrElse(response.json.notes, "No notes provided"),
          status |-> OrElse(response.json.status, "unknown")]
    ELSE [raised |-> TRUE, score |-> 0, notes |-> ReviewFailure(response), status |-> ""]

reviewTranslationQuality(originalTexts, translatedTexts, targetLang, response) ==
    IF response.ok /\ response.text = "json"
    THEN [raised |-> FALSE,
          score |-> OrElse(response.json.score, 0),
          notes |-> OrElse(response.json.notes, "No notes provided"),
          status |-> OrElse(response.json.status, "unknown")]
    ELSE [raised |-> FALSE,
          score |-> 0,
          notes |-> ReviewFailure(response),
          status |-> "review_failed"]

----------------------------------------------------------------------------
(* Extraction, rebuilding and the document the worker persists *)

extractTranslatableStrings(obj) ==
    [k \in 1..Len(obj.strings) |-> [key |-> k, value |-> obj.strings[k]]]

rebuildObject(strings, baseObj) ==
    [baseObj EXCEPT !.strings =
        [k \in DOMAIN @ |->
            IF \E n \in 1..Len(strings) : strings[n].key = k
            THEN LET last == CHOOSE n \in 1..Len(strings) :
                                /\ strings[n].key = k
                                /\ \A m \in 1..Len(strings) : strings[m].key = k => m <= n
                 IN strings[last].value
            ELSE @[k]]]

DoneMarkerStrict(review) == review.score > DoneThreshold

DoneMarker(review) == review.score >= DoneThreshold

TranslatedDocument(translatedObject, locale, review) ==
    [translatedObject EXCEPT
        !.meta = [@ EXCEPT !.locale = locale,
                           !.lastUpdated = now,
                           !.qualityReview = [score |-> review.score,
                                              status |-> review.status,
                                              notes |-> review.notes]],
        !.translationStatus =
            IF DoneMarker(review)
            THEN [present |-> TRUE, status |-> "completed",
                  quality |-> review.status, done |-> TRUE]
            ELSE @]

----------------------------------------------------------------------------
(* The environment.  Every call has a nominal outcome (the storage and the *)
(* job store answer, the translator is well-formed, the reviewer returns   *)
(* the score 70) and other outcomes; a run takes at most MaxDeviations     *)
(* outcomes that are not the nominal one.                                  *)

Outcomes(nominal, others) == IF deviations < MaxDeviations THEN nominal \cup others ELSE nominal

Deviates(outcome, nominal) == IF outcome \in nominal THEN 0 ELSE 1

----------------------------------------------------------------------------
(* The state of one worker activation: its position in the handler and     *)
(* the locals of processNextJob / processTranslationJob.  sent is the list *)
(* of the batches the current job has passed to translateTextBulk so far,  *)
(* reviewed the list of the argument pairs it has passed to                *)
(* reviewTranslationQuality.                                               *)

IdleWorker ==
    [pc |-> "idle", processedCount |-> 0, job |-> NoJob,
     englishSource |-> NoDoc, i |-> 0, translatedStrings |-> <<>>,
     review |-> NoReview, reviewText |-> "", error |-> NoError,
     sawMismatch |-> FALSE, leased |-> 0, sent |-> <<>>, reviewed |-> <<>>]

(* The locals as they are when processTranslationJob has returned and the  *)
(* handler loop counts the job; leased counts the jobs the activation has  *)
(* moved to processing.                                                    *)
AfterJobUncounted(wk) ==
    [IdleWorker EXCEPT !.pc = "loop", !.processedCount = wk.processedCount,
                       !.leased = wk.leased]

AfterJob(wk) ==
    [IdleWorker EXCEPT !.pc = "loop", !.processedCount = wk.processedCount + 1,
                       !.leased = wk.leased]

InProcessing(wk) ==
    wk.pc \in {"download", "translate", "review", "upload", "complete", "ai_review", "catch"}

PriorityOf(l) == IF l \in HighPriorityLocales THEN 1 ELSE 2

LastCreatedAt == IF jobs = <<>> THEN 0 ELSE jobs[Len(jobs)].created_at

(* The metadata file, and a request to the on-demand generator: its       *)
(* position in generateTranslation and its locals.                         *)
Generators == {"g1", "g2"}

NoMetadata == [present |-> FALSE, translations |-> [l \in Locales |-> <<>>]]

NoResponse == [status |-> 0, translation |-> NoDoc]

IdleGenerator ==
    [pc |-> "idle", locale |-> "", forceUpdate |-> FALSE, exists |-> FALSE,
     metadataData |-> NoMetadata, englishSource |-> NoDoc, sourceHash |-> 0,
     translatedObject |-> NoDoc, response |-> NoResponse]

(* The cache of the translation server, its clock (in minutes) and a       *)
(* request to it.                                                          *)
Servers == {"s1"}

NoEntry == [present |-> FALSE]

(* What getTranslation returns: a document and its _fallback property      *)
(* (FALSE for a document without the property).                            *)
Served(document, fallback) == [document |-> document, _fallback |-> fallback]

NoServeResponse ==
    [status |-> 0, success |-> FALSE, translation |-> Served(NoDoc, FALSE),
     cached |-> FALSE, fallback |-> FALSE]

(* What getTranslationStatus returns when it has not been called           *)
NoJobStatus == [status |-> ""]

(* force is the force property of the request, regenerate tells whether    *)
(* the request comes from the regeneration route of the site (which posts  *)
(* force: true), hit whether getTranslation answered from the cache,       *)
(* jobStatus is the jobStatus property of the response.                    *)
IdleServer ==
    [pc |-> "idle", locale |-> "", force |-> FALSE, regenerate |-> FALSE,
     hit |-> FALSE, response |-> NoServeResponse, jobStatus |-> NoJobStatus]

(* JSON documents as trees.  A key is the sequence of the pieces that       *)
(* split('.') makes of it: <<"title">> is the key title, <<"home", "title">>*)
(* the key "home.title".  An object keeps its entries in insertion order.  *)
Text(v) == [type |-> "string", value |-> v]
Number(v) == [type |-> "number", value |-> v]
Object(entries) == [type |-> "object", entries |-> entries]
Boolean(v) == [type |-> "boolean", value |-> v]
TypeError == [type |-> "TypeError"]

(* The document under extraction and rebuilding: the input D, the          *)
(* extracted strings, their translations, the rebuilt result and the       *)
(* fingerprint.                                                            *)
IdleExtraction ==
    [pc |-> "idle", D |-> Object(<<>>), strings |-> <<>>, translatedStrings |-> <<>>,
     result |-> Object(<<>>), hash |-> <<>>]

(* The client loader: the cache of the EdgeTranslator, the local           *)
(* translationCache of loadTranslations, and a call of loadTranslations.   *)
defaultLocale == "en"
ClientLocales == {"en", "sv"}

IdleLoader ==
    [pc |-> "idle", locale |-> "", now |-> 0, failed |-> FALSE,
     cache |-> [l \in ClientLocales |-> NoEntry],
     translationCache |-> [l \in ClientLocales |-> NoEntry],
     result |-> NoDoc]

InitLibrary ==
    /\ extraction = IdleExtraction
    /\ loader = IdleLoader

InitRequests ==
    /\ metadata = NoMetadata
    /\ generator = [g \in Generators |-> IdleGenerator]
    /\ translationCache = [l \in Locales |-> NoEntry]
    /\ now = 0
    /\ server = [s \in Servers |-> IdleServer]

Init ==
    /\ jobs = <<>>
    /\ docs = [l \in Locales |-> NoDoc]
    /\ en = 1
    /\ worker = [w \in AllWorkers |-> IdleWorker]
    /\ deviations = 0
    /\ persistedJobs = {}
    /\ marked = {}
    /\ InitRequests
    /\ InitLibrary

(* A new job for a locale: created by change detection after a publish,    *)
(* or by an administrative regeneration, with the table's defaults and the *)
(* fingerprint of the current source.                                      *)
Enqueue(l) ==
    /\ Len(jobs) < MaxJobs
    /\ jobs' = Append(jobs, NewJob(l, PriorityOf(l), generateHash(en), LastCreatedAt + 1))
    /\ UNCHANGED <<docs, en, worker, deviations, persistedJobs, marked, dataVars, serveVars, libVars>>

(* The trigger invokes the handler: processedCount = 0, hasMoreJobs = true *)
Trigger(w) ==
    /\ worker[w].pc = "idle"
    /\ worker' = [worker EXCEPT ![w] = [IdleWorker EXCEPT !.pc = "loop"]]
    /\ UNCHANGED <<jobs, docs, en, deviations, persistedJobs, marked, dataVars, serveVars, libVars>>

(* The loop test and processNextJob up to the call of processTranslationJob *)
ProcessNextJob(w) ==
    /\ worker[w].pc = "loop"
    /\ IF worker[w].processedCount >= MaxJobsPerInvocation
       THEN worker' = [worker EXCEPT ![w] = IdleWorker] /\ UNCHANGED deviations
       ELSE \E rpc \in Outcomes({"ok"}, {"error"}) :
                /\ deviations' = deviations + Deviates(rpc, {"ok"})
                /\ IF rpc = "error" \/ get_next_translation_job(jobs) = {}
                   THEN worker' = [worker EXCEPT ![w] = IdleWorker]
                   ELSE \E j \in get_next_translation_job(jobs) :
                           worker' = [worker EXCEPT ![w] =
                               [@ EXCEPT !.pc = "lease",
                                         !.job = [job_id |-> j,
                                                  locale |-> jobs[j].locale,
                                                  source_hash |-> jobs[j].source_hash]]]
    /\ UNCHANGED <<jobs, docs, en, persistedJobs, marked, dataVars, serveVars, libVars>>

(* processTranslationJob: update_translation_job_status(jobId, 'processing') *)
Lease(w) ==
    /\ worker[w].pc = "lease"
    /\ jobs' = update_translation_job_status(jobs, worker[w].job.job_id, "processing", NoError)
    /\ worker' = [worker EXCEPT ![w].pc = "download", ![w].leased = @ + 1]
    /\ UNCHANGED <<docs, en, deviations, persistedJobs, marked, dataVars, serveVars, libVars>>

(* download('en.json') *)
Download(w) ==
    /\ worker[w].pc = "download"
    /\ \E outcome \in Outcomes({"ok"}, {"error"}) :
          /\ deviations' = deviations + Deviates(outcome, {"ok"})
          /\ worker' = [worker EXCEPT ![w] =
              IF outcome = "ok"
              THEN [@ EXCEPT !.pc = "translate", !.englishSource = SourceDocument(en), !.i = 0]
              ELSE [@ EXCEPT !.pc = "catch", !.error = <<"Failed to load English source">>]]
    /\ UNCHANGED <<jobs, docs, en, persistedJobs, marked, dataVars, serveVars, libVars>>

(* The test of the batch loop: for (...; i < translatableStrings.length; ...) *)
LoopEnds(i, length) == FALSE

LoopContinues(i, length) == i < length

(* One iteration of the batch loop *)
TranslateBatch(w) ==
    /\ worker[w].pc = "translate"
    /\ LET wk == worker[w]
           translatableStrings == extractTranslatableStrings(wk.englishSource)
           batch == SubSeq(translatableStrings, wk.i + 1,
                           Min(wk.i + batchSize, Len(translatableStrings)))
       IN \E textsToTranslate \in {SubSeq([j \in 1..Len(batch) |-> batch[j].value], 1, Len(batch))} :
          \E wellFormed \in {WellFormed(textsToTranslate, wk.job.locale)} :
          \E response \in Outcomes({wellFormed}, TranslatorResponses(wellFormed, wk.job.locale)) :
            LET result == translateTextBulk(textsToTranslate, wk.job.locale, response)
                translatedTexts == result.value
                pushed == [j \in 1..Len(batch) |->
                              [key |-> batch[j].key,
                               value |-> IF j <= Len(translatedTexts)
                                         THEN translatedTexts[j] ELSE Undefined]]
                mismatch == wk.sawMismatch \/ CountMismatch(textsToTranslate, response)
            IN /\ deviations' = deviations + Deviates(response, {wellFormed})
               /\ worker' = [worker EXCEPT ![w] =
                    IF ~result.ok
                    THEN [@ EXCEPT !.pc = "catch", !.error = result.error,
                                   !.sawMismatch = mismatch,
                                   !.sent = Append(wk.sent, textsToTranslate)]
                    ELSE [@ EXCEPT !.translatedStrings = wk.translatedStrings \o pushed,
                                   !.i = wk.i + batchSize,
                                   !.sawMismatch = mismatch,
                                   !.sent = Append(wk.sent, textsToTranslate),
                                   !.pc = IF LoopContinues(wk.i + batchSize,
                                                           Len(translatableStrings))
                                          THEN "translate" ELSE "review"]]
    /\ UNCHANGED <<jobs, docs, en, persistedJobs, marked, dataVars, serveVars, libVars>>

(* reviewTranslationQuality over the full lists *)
Review(w) ==
    /\ worker[w].pc = "review"
    /\ LET wk == worker[w]
           originalTexts == [k \in 1..Len(extractTranslatableStrings(wk.englishSource)) |->
                                extractTranslatableStrings(wk.englishSource)[k].value]
           translatedTexts == [k \in 1..Len(wk.translatedStrings) |->
                                wk.translatedStrings[k].value]
       IN \E response \in Outcomes({NominalReview}, ReviewerResponses) :
            LET result == reviewTranslationQuality(originalTexts, translatedTexts,
                                                   wk.job.locale, response)
                text == IF response.ok THEN response.text ELSE "not ok"
                arguments == [originalTexts |-> originalTexts,
                              translatedTexts |-> translatedTexts]
            IN /\ deviations' = deviations + Deviates(response, {NominalReview})
               /\ worker' = [worker EXCEPT ![w] =
                 IF result.raised
                 THEN [@ EXCEPT !.pc = "catch", !.error = <<result.notes>>,
                                !.reviewText = text,
                                !.reviewed = Append(wk.reviewed, arguments)]
                 ELSE [@ EXCEPT !.pc = "upload", !.reviewText = text,
                                !.reviewed = Append(wk.reviewed, arguments),
                                !.review = [score |-> result.score,
                                            status |-> result.status,
                                            notes |-> result.notes]]]
    /\ UNCHANGED <<jobs, docs, en, persistedJobs, marked, dataVars, serveVars, libVars>>

(* The document built at lines 297-331 from the locals *)
translatedObject(wk) ==
    TranslatedDocument(rebuildObject(wk.translatedStrings, wk.englishSource),
                       wk.job.locale, wk.review)

(* upload(`${locale}.json`, ..., upsert): the write succeeds, or the call  *)
(* returns an error that the code does not look at, or the call rejects.   *)
Upload(w) ==
    /\ worker[w].pc = "upload"
    /\ LET wk == worker[w] IN
       \E outcome \in Outcomes({"ok"}, {"error", "throw"}) :
          /\ deviations' = deviations + Deviates(outcome, {"ok"})
          /\ worker' = [worker EXCEPT ![w] =
               IF outcome = "throw"
               THEN [@ EXCEPT !.pc = "catch", !.error = <<"Storage upload failed">>]
               ELSE [@ EXCEPT !.pc = "complete"]]
          /\ IF outcome = "ok"
             THEN /\ docs' = [docs EXCEPT ![wk.job.locale] = translatedObject(wk)]
                  /\ persistedJobs' = persistedJobs \cup {wk.job.job_id}
                  /\ marked' = IF translatedObject(wk).translationStatus.present
                               THEN marked \cup {wk.job.locale} ELSE marked
             ELSE UNCHANGED <<docs, persistedJobs, marked>>
    /\ UNCHANGED <<jobs, en, dataVars, serveVars, libVars>>

(* update_translation_job_status(jobId, 'completed') *)
Complete(w) ==
    /\ worker[w].pc = "complete"
    /\ jobs' = update_translation_job_status(jobs, worker[w].job.job_id, "completed", NoError)
    /\ worker' = [worker EXCEPT ![w].pc = "ai_review"]
    /\ UNCHANGED <<docs, en, deviations, persistedJobs, marked, dataVars, serveVars, libVars>>

(* update_ai_review_status(jobId, review); processNextJob returns true *)
UpdateAiReview(w) ==
    /\ worker[w].pc = "ai_review"
    /\ jobs' = update_ai_review_status(jobs, worker[w].job.job_id, worker[w].review.status,
                                       worker[w].review.score, worker[w].review.notes)
    /\ worker' = [worker EXCEPT ![w] = AfterJob(@)]
    /\ UNCHANGED <<docs, en, deviations, persistedJobs, marked, dataVars, serveVars, libVars>>

(* catch: update_translation_job_status(jobId, 'failed', error.message) *)
CatchUnrecorded(w) ==
    /\ worker[w].pc = "catch"
    /\ worker' = [worker EXCEPT ![w] = AfterJob(@)]
    /\ UNCHANGED <<jobs, docs, en, deviations, persistedJobs, marked, dataVars, serveVars, libVars>>

Catch(w) ==
    /\ worker[w].pc = "catch"
    /\ jobs' = update_translation_job_status(jobs, worker[w].job.job_id, "failed", worker[w].error)
    /\ worker' = [worker EXCEPT ![w] = AfterJob(@)]
    /\ UNCHANGED <<docs, en, deviations, persistedJobs, marked, dataVars, serveVars, libVars>>

WorkerStep(w) ==
    \/ Trigger(w)
    \/ ProcessNextJob(w)
    \/ Lease(w)
    \/ Download(w)
    \/ TranslateBatch(w)
    \/ Review(w)
    \/ Upload(w)
    \/ Complete(w)
    \/ UpdateAiReview(w)
    \/ Catch(w)

Next ==
    \/ \E l \in Locales : Enqueue(l)
    \/ \E w \in Workers : WorkerStep(w)

Spec == Init /\ [][Next]_vars

(* The runtime ends an activation before its handler returns (wall-clock   *)
(* limit, shutdown): nothing more of it runs, the job it held stays as it  *)
(* is.                                                                     *)
CutOff(w) ==
    /\ worker[w].pc # "idle"
    /\ worker' = [worker EXCEPT ![w] = IdleWorker]
    /\ UNCHANGED <<jobs, docs, en, deviations, persistedJobs, marked, dataVars, serveVars, libVars>>

(* Overlapping activations, any of which may be cut off                    *)
NextCutOff ==
    \/ \E l \in Locales : Enqueue(l)
    \/ \E w \in Workers : WorkerStep(w) \/ CutOff(w)

SpecCutOff == Init /\ [][NextCutOff]_vars

(* Four activations that overlap on a queue holding one job, every call    *)
(* with its nominal outcome.                                               *)
InitRace ==
    /\ jobs = <<NewJob("sv", PriorityOf("sv"), generateHash(1), 1)>>
    /\ docs = [l \in Locales |-> NoDoc]
    /\ en = 1
    /\ worker = [w \in AllWorkers |-> IdleWorker]
    /\ deviations = MaxDeviations
    /\ persistedJobs = {}
    /\ marked = {}
    /\ InitRequests
    /\ InitLibrary

NextRace ==
    \E w \in AllWorkers :
        \/ Trigger(w)
        \/ ProcessNextJob(w)
        \/ Lease(w)
        \/ Download(w)
        \/ TranslateBatch(w)
        \/ Review(w)
        \/ Upload(w)
        \/ Complete(w)
        \/ UpdateAiReview(w)

SpecRace == InitRace /\ [][NextRace]_vars

(* The publisher of the content replaces en.json by its next version.      *)
MaxVersions == 2

Publish ==
    /\ en < MaxVersions
    /\ en' = en + 1
    /\ UNCHANGED <<jobs, docs, worker, deviations, persistedJobs, marked, dataVars, serveVars, libVars>>

(* One activation at a time while the source is republished and jobs are   *)
(* created.                                                                *)
NextPublish ==
    \/ Publish
    \/ \E l \in Locales : Enqueue(l)
    \/ WorkerStep("w1")

SpecPublish == Init /\ [][NextPublish]_vars

(* One activation at a time on a queue that holds more jobs than one       *)
(* activation takes.  The runtime runs a started handler to its return:    *)
(* every call it awaits answers or rejects.                                *)
BatchJobs == 6

InitBatch ==
    /\ jobs = [j \in 1..BatchJobs |->
                  LET l == IF j % 2 = 1 THEN "sv" ELSE "es"
                  IN NewJob(l, PriorityOf(l), generateHash(1), j)]
    /\ docs = [l \in Locales |-> NoDoc]
    /\ en = 1
    /\ worker = [w \in AllWorkers |-> IdleWorker]
    /\ deviations = 0
    /\ persistedJobs = {}
    /\ marked = {}
    /\ InitRequests
    /\ InitLibrary

Running(w) ==
    \/ ProcessNextJob(w)
    \/ Lease(w)
    \/ Download(w)
    \/ TranslateBatch(w)
    \/ Review(w)
    \/ Upload(w)
    \/ Complete(w)
    \/ UpdateAiReview(w)
    \/ Catch(w)

NextBatch == Trigger("w1") \/ Running("w1")

SpecBatch == InitBatch /\ [][NextBatch]_vars /\ WF_vars(Running("w1"))

(* Activations that are triggered again and again on a queue to which no   *)
(* job is added.  The trigger is weakly fair, and so is every started      *)
(* handler: each call it awaits returns.                                   *)
InitQueue ==
    /\ jobs = [j \in 1..MaxJobs |->
                  LET l == IF j % 2 = 1 THEN "es" ELSE "sv"
                  IN NewJob(l, PriorityOf(l), generateHash(1), j)]
    /\ docs = [l \in Locales |-> NoDoc]
    /\ en = 1
    /\ worker = [w \in AllWorkers |-> IdleWorker]
    /\ deviations = 0
    /\ persistedJobs = {}
    /\ marked = {}
    /\ InitRequests
    /\ InitLibrary

NextQueue == \E w \in Workers : WorkerStep(w)

SpecQueue == InitQueue /\ [][NextQueue]_vars /\ \A w \in Workers : WF_vars(WorkerStep(w))

----------------------------------------------------------------------------
(* The on-demand generator (data edge function).  Every storage call of    *)
(* generateTranslation is one step.                                        *)

(* translateText: the translated text, or the original text when the call  *)
(* fails or answers nothing.  A response is [ok, content].                 *)
translateText(text, targetLang, response) ==
    IF ~response.ok THEN text
    ELSE IF response.content = <<>> THEN text
    ELSE response.content[1]

(* isTranslationFresh over what its three downloads returned (an absent    *)
(* record for a download without data).                                    *)
isTranslationFreshAnyHash(existingData, metadataData, englishSource, locale) ==
    IF ~existingData.present THEN [exists |-> FALSE, fresh |-> FALSE]
    ELSE IF ~metadataData.present THEN [exists |-> TRUE, fresh |-> FALSE]
    ELSE IF ~englishSource.present THEN [exists |-> TRUE, fresh |-> FALSE]
    ELSE [exists |-> TRUE, fresh |-> metadataData.translations[locale] # <<>>]

isTranslationFresh(existingData, metadataData, englishSource, locale) ==
    IF ~existingData.present THEN [exists |-> FALSE, fresh |-> FALSE]
    ELSE IF ~metadataData.present THEN [exists |-> TRUE, fresh |-> FALSE]
    ELSE IF ~englishSource.present THEN [exists |-> TRUE, fresh |-> FALSE]
    ELSE [exists |-> TRUE,
          fresh |-> <<generateHash(englishSource.version)>> =
                        metadataData.translations[locale]]

Respond(gen, status, translation) ==
    [IdleGenerator EXCEPT !.pc = "done", !.locale = gen.locale,
                          !.response = [status |-> status, translation |-> translation]]

(* The handler is invoked with a supported locale other than en *)
DataRequest(g, l, force) ==
    /\ generator[g].pc \in {"idle", "done"}
    /\ generator' = [generator EXCEPT ![g] =
          [IdleGenerator EXCEPT !.pc = "check_existing", !.locale = l,
                                !.forceUpdate = force]]
    /\ UNCHANGED <<docs, en, deviations, metadata, workerVars, serveVars, libVars>>

(* isTranslationFresh: download(`${locale}.json`) *)
DataCheckExisting(g) ==
    /\ generator[g].pc = "check_existing"
    /\ \E outcome \in Outcomes({"ok"}, {"error"}) :
         LET existingData == IF outcome = "ok" THEN docs[generator[g].locale] ELSE NoDoc
         IN /\ deviations' = deviations + Deviates(outcome, {"ok"})
            /\ generator' = [generator EXCEPT ![g] =
                 IF existingData.present
                 THEN [@ EXCEPT !.pc = "check_metadata", !.exists = TRUE]
                 ELSE [@ EXCEPT !.pc = "load_source", !.exists = FALSE]]
    /\ UNCHANGED <<docs, en, metadata, workerVars, serveVars, libVars>>

(* isTranslationFresh: download('metadata.json') *)
DataCheckMetadata(g) ==
    /\ generator[g].pc = "check_metadata"
    /\ \E outcome \in Outcomes({"ok"}, {"error"}) :
         LET metadataData == IF outcome = "ok" THEN metadata ELSE NoMetadata
         IN /\ deviations' = deviations + Deviates(outcome, {"ok"})
            /\ generator' = [generator EXCEPT ![g] =
                 IF metadataData.present
                 THEN [@ EXCEPT !.pc = "check_source", !.metadataData = metadataData]
                 ELSE [@ EXCEPT !.pc = "load_source"]]
    /\ UNCHANGED <<docs, en, metadata, workerVars, serveVars, libVars>>

(* isTranslationFresh: loadEnglishSource, the two hashes, and the test     *)
(* exists && fresh && !forceUpdate of generateTranslation                  *)
DataCheckSource(g) ==
    /\ generator[g].pc = "check_source"
    /\ \E outcome \in Outcomes({"ok"}, {"error"}) :
         LET gen == generator[g]
             englishSource == IF outcome = "ok" THEN SourceDocument(en) ELSE NoDoc
             result == isTranslationFresh([present |-> gen.exists], gen.metadataData,
                                          englishSource, gen.locale)
         IN /\ deviations' = deviations + Deviates(outcome, {"ok"})
            /\ generator' = [generator EXCEPT ![g] =
                 [@ EXCEPT !.metadataData = NoMetadata,
                           !.pc = IF result.exists /\ result.fresh /\ ~gen.forceUpdate
                                  THEN "load_existing" ELSE "load_source"]]
    /\ UNCHANGED <<docs, en, metadata, workerVars, serveVars, libVars>>

(* The translation is up to date: it is loaded from storage and returned;  *)
(* without data the handler goes on to generate.                           *)
DataLoadExisting(g) ==
    /\ generator[g].pc = "load_existing"
    /\ \E outcome \in Outcomes({"ok"}, {"error"}) :
         /\ deviations' = deviations + Deviates(outcome, {"ok"})
         /\ generator' = [generator EXCEPT ![g] =
              IF outcome = "ok"
              THEN Respond(@, 200, docs[@.locale])
              ELSE [@ EXCEPT !.pc = "load_source"]]
    /\ UNCHANGED <<docs, en, metadata, workerVars, serveVars, libVars>>

(* loadEnglishSource and generateHash; a failed download raises and the    *)
(* handler answers 500.                                                    *)
DataLoadSource(g) ==
    /\ generator[g].pc = "load_source"
    /\ \E outcome \in Outcomes({"ok"}, {"error"}) :
         /\ deviations' = deviations + Deviates(outcome, {"ok"})
         /\ generator' = [generator EXCEPT ![g] =
              IF outcome = "ok"
              THEN [@ EXCEPT !.pc = "translate", !.englishSource = SourceDocument(en),
                             !.sourceHash = generateHash(en)]
              ELSE Respond(@, 500, NoDoc)]
    /\ UNCHANGED <<docs, en, metadata, workerVars, serveVars, libVars>>

(* The batches of translateText calls, rebuildObject and the meta block;   *)
(* the translation service answers every text, or fails on the first.      *)
DataTranslate(g) ==
    /\ generator[g].pc = "translate"
    /\ LET gen == generator[g]
           translatableStrings == extractTranslatableStrings(gen.englishSource)
       IN \E failing \in Outcomes({{}}, {{1}}) :
            LET translatedStrings ==
                    [k \in 1..Len(translatableStrings) |->
                        [key |-> translatableStrings[k].key,
                         value |-> translateText(
                             translatableStrings[k].value, gen.locale,
                             IF k \in failing
                             THEN [ok |-> FALSE, content |-> <<>>]
                             ELSE [ok |-> TRUE,
                                   content |-> <<Translation(gen.locale,
                                                   translatableStrings[k].value)>>])]]
                rebuilt == rebuildObject(translatedStrings, gen.englishSource)
            IN /\ deviations' = deviations + Deviates(failing, {{}})
               /\ generator' = [generator EXCEPT ![g] =
                    [@ EXCEPT !.pc = "upload",
                              !.translatedObject =
                                  [rebuilt EXCEPT !.meta = [@ EXCEPT !.locale = gen.locale,
                                                                     !.lastUpdated = now]]]]
    /\ UNCHANGED <<docs, en, metadata, workerVars, serveVars, libVars>>

(* upload(`${locale}.json`, upsert); an error raises and the handler       *)
(* answers 500.                                                            *)
DataUpload(g) ==
    /\ generator[g].pc = "upload"
    /\ \E outcome \in Outcomes({"ok"}, {"error"}) :
         /\ deviations' = deviations + Deviates(outcome, {"ok"})
         /\ IF outcome = "ok"
            THEN /\ docs' = [docs EXCEPT ![generator[g].locale] = generator[g].translatedObject]
                 /\ generator' = [generator EXCEPT ![g].pc = "metadata_read"]
            ELSE /\ generator' = [generator EXCEPT ![g] = Respond(@, 500, NoDoc)]
                 /\ UNCHANGED docs
    /\ UNCHANGED <<en, metadata, workerVars, serveVars, libVars>>

(* updateMetadata: download('metadata.json'), an empty metadata without it *)
DataMetadataRead(g) ==
    /\ generator[g].pc = "metadata_read"
    /\ \E outcome \in Outcomes({"ok"}, {"error"}) :
         /\ deviations' = deviations + Deviates(outcome, {"ok"})
         /\ generator' = [generator EXCEPT ![g] =
              [@ EXCEPT !.pc = "metadata_write",
                        !.metadataData = IF outcome = "ok" THEN metadata ELSE NoMetadata]]
    /\ UNCHANGED <<docs, en, metadata, workerVars, serveVars, libVars>>

(* updateMetadata: the entry of the locale is set and the file uploaded    *)
(* (an error is logged); generateTranslation returns the new document.     *)
DataMetadataWrite(g) ==
    /\ generator[g].pc = "metadata_write"
    /\ \E outcome \in Outcomes({"ok"}, {"error"}) :
         LET gen == generator[g] IN
         /\ deviations' = deviations + Deviates(outcome, {"ok"})
         /\ metadata' = IF outcome = "ok"
                        THEN [present |-> TRUE,
                              translations |-> [gen.metadataData.translations
                                  EXCEPT ![gen.locale] = <<gen.sourceHash>>]]
                        ELSE metadata
         /\ generator' = [generator EXCEPT ![g] = Respond(@, 200, gen.translatedObject)]
    /\ UNCHANGED <<docs, en, workerVars, serveVars, libVars>>

DataStep(g) ==
    \/ \E l \in Locales, force \in BOOLEAN : DataRequest(g, l, force)
    \/ DataCheckExisting(g)
    \/ DataCheckMetadata(g)
    \/ DataCheckSource(g)
    \/ DataLoadExisting(g)
    \/ DataLoadSource(g)
    \/ DataTranslate(g)
    \/ DataUpload(g)
    \/ DataMetadataRead(g)
    \/ DataMetadataWrite(g)

(* Requests to the generator while the source is republished *)
NextData ==
    \/ Publish
    \/ \E g \in Generators : DataStep(g)

SpecData == Init /\ [][NextData]_vars

----------------------------------------------------------------------------
(* The translation server (serve-translation edge function) and the        *)
(* regeneration route that posts to it.  The clock counts minutes.         *)

CACHE_TTL == 5
MaxTime == 5

Tick ==
    /\ now < MaxTime
    /\ now' = now + 1
    /\ UNCHANGED <<docs, en, deviations, translationCache, server, workerVars, dataVars, libVars>>

ServeResponseUnflagged(translation, cache, locale) ==
    [status |-> 200, success |-> TRUE, translation |-> translation,
     cached |-> cache[locale].present,
     fallback |-> FALSE]

(* The handler's response after getTranslation returned `translation`:     *)
(* cached is translationCache.has(locale) at that moment.                  *)
ServeResponse(translation, cache, locale) ==
    [status |-> 200, success |-> TRUE, translation |-> translation,
     cached |-> cache[locale].present,
     fallback |-> translation._fallback]

ServeFailure ==
    [status |-> 500, success |-> FALSE, translation |-> Served(NoDoc, FALSE),
     cached |-> FALSE, fallback |-> FALSE]

CacheHit(cached) == cached.present /\ (now - cached.timestamp) < CACHE_TTL

(* translationCache.set(locale, {data, timestamp: Date.now()})             *)
CachedAtStart(data, timestamp) == [present |-> TRUE, data |-> data, timestamp |-> 0]

Cached(data, timestamp) == [present |-> TRUE, data |-> data, timestamp |-> timestamp]

(* The locale validation of the handler and its 400 response               *)
supportedLocales ==
    {"en", "sv", "de", "fr", "es", "it", "pt", "nl", "da", "no", "fi", "ja", "zh"}

RequestLocales == Locales \cup {"", "xx"}

ServeRejectionUnlisted ==
    [status |-> 400, success |-> FALSE, translation |-> Served(NoDoc, FALSE),
     cached |-> FALSE, fallback |-> FALSE, supportedLocales |-> {}]

ServeRejection ==
    [status |-> 400, success |-> FALSE, translation |-> Served(NoDoc, FALSE),
     cached |-> FALSE, fallback |-> FALSE, supportedLocales |-> supportedLocales]

(* The handler is invoked: it takes locale from the request (force is not  *)
(* read), rejects a missing or unsupported locale, and calls               *)
(* getTranslation, which answers from the cache or goes on to the storage. *)
ServeRequest(s, l, force, regenerate) ==
    /\ server[s].pc \in {"idle", "done", "regenerated", "rejected", "status"}
    /\ server' = [server EXCEPT ![s] =
          IF l = "" \/ l \notin supportedLocales
          THEN [IdleServer EXCEPT !.pc = "rejected", !.locale = l, !.force = force,
                                  !.regenerate = regenerate,
                                  !.response = ServeRejection]
          ELSE LET cached == translationCache[l]
               IN IF CacheHit(cached)
                  THEN [IdleServer EXCEPT !.pc = "done", !.locale = l, !.force = force,
                                          !.regenerate = regenerate, !.hit = TRUE,
                                          !.response = ServeResponse(cached.data, translationCache, l)]
                  ELSE [IdleServer EXCEPT !.pc = "download", !.locale = l, !.force = force,
                                          !.regenerate = regenerate]]
    /\ UNCHANGED <<docs, en, deviations, translationCache, now, workerVars, dataVars, libVars>>

(* download(`${locale}.json`): the stored document, or none (not found,    *)
(* or the storage fails).                                                  *)
ServeDownload(s) ==
    /\ server[s].pc = "download"
    /\ LET l == server[s].locale
           found == IF docs[l].present THEN "ok" ELSE "not found"
       IN \E outcome \in Outcomes({found}, {"error"}) :
            /\ deviations' = deviations + Deviates(outcome, {found})
            /\ IF outcome = "ok"
               THEN LET translation == Served(docs[l], FALSE)
                        cache == [translationCache EXCEPT ![l] = Cached(translation, now)]
                    IN /\ translationCache' = cache
                       /\ server' = [server EXCEPT ![s] =
                            [@ EXCEPT !.pc = "done",
                                      !.response = ServeResponse(translation, cache, l)]]
               ELSE /\ server' = [server EXCEPT ![s].pc = "fallback"]
                    /\ UNCHANGED translationCache
    /\ UNCHANGED <<docs, en, now, workerVars, dataVars, libVars>>

(* download('en.json'): the English document is cached and returned with   *)
(* _fallback; without it getTranslation raises and the handler answers 500 *)
ServeFallback(s) ==
    /\ server[s].pc = "fallback"
    /\ LET l == server[s].locale
       IN \E outcome \in Outcomes({"ok"}, {"error"}) :
            /\ deviations' = deviations + Deviates(outcome, {"ok"})
            /\ IF outcome = "ok"
               THEN LET translation == Served(SourceDocument(en), TRUE)
                        cache == [translationCache EXCEPT ![l] = Cached(translation, now)]
                    IN /\ translationCache' = cache
                       /\ server' = [server EXCEPT ![s] =
                            [@ EXCEPT !.pc = "done",
                                      !.response = ServeResponse(translation, cache, l)]]
               ELSE /\ server' = [server EXCEPT ![s] =
                            [@ EXCEPT !.pc = "done", !.response = ServeFailure]]
                    /\ UNCHANGED translationCache
    /\ UNCHANGED <<docs, en, now, workerVars, dataVars, libVars>>

(* EdgeTranslator.regenerateTranslation posted {locale, force: true} to    *)
(* the server; it drops the server's response and returns nothing, and     *)
(* the route answers success with that (absent) translation.               *)
RegenerateResponse ==
    [status |-> 200, success |-> TRUE, translation |-> Served(NoDoc, FALSE),
     cached |-> FALSE, fallback |-> FALSE]

RegenerateTranslation(s) ==
    /\ server[s].pc = "done"
    /\ server[s].regenerate
    /\ server' = [server EXCEPT ![s] =
          [@ EXCEPT !.pc = "regenerated", !.response = RegenerateResponse]]
    /\ UNCHANGED <<docs, en, deviations, translationCache, now, workerVars, dataVars, libVars>>

ServeStep(s) ==
    \/ \E l \in RequestLocales, force \in BOOLEAN :
       \E regenerate \in {FALSE, force} : ServeRequest(s, l, force, regenerate)
    \/ ServeDownload(s)
    \/ ServeFallback(s)
    \/ RegenerateTranslation(s)

(* The rows that .eq('locale', locale).order('created_at', descending)     *)
(* .limit(1) may return: any job of the locale that none of its jobs       *)
(* follows in created_at.                                                  *)
LatestJobsAscending(js, locale) ==
    {j \in JobIds(js) :
        /\ js[j].locale = locale
        /\ \A k \in JobIds(js) :
              js[k].locale = locale => js[k].created_at >= js[j].created_at}

LatestJobs(js, locale) ==
    {j \in JobIds(js) :
        /\ js[j].locale = locale
        /\ \A k \in JobIds(js) :
              js[k].locale = locale => js[k].created_at <= js[j].created_at}

JobStatus(job) ==
    [status |-> job.status, priority |-> job.priority, attempts |-> job.attempts,
     aiReviewStatus |-> job.ai_review_status, aiReviewScore |-> job.ai_review_score,
     createdAt |-> job.created_at, errorMessage |-> job.error_message]

(* getTranslationStatus(locale), called by the handler for a request with  *)
(* includeStatus once getTranslation has returned and the response is      *)
(* prepared: the query gives an error, no row, or the latest row.          *)
GetTranslationStatus(s) ==
    /\ server[s].pc = "done"
    /\ ~server[s].regenerate
    /\ server[s].response.status = 200
    /\ \E outcome \in Outcomes({"ok"}, {"error"}) :
          /\ deviations' = deviations + Deviates(outcome, {"ok"})
          /\ \E jobStatus \in
                  IF outcome = "error" THEN {[status |-> "unknown"]}
                  ELSE IF LatestJobs(jobs, server[s].locale) = {}
                  THEN {[status |-> "no_job"]}
                  ELSE {JobStatus(jobs[j]) : j \in LatestJobs(jobs, server[s].locale)} :
                server' = [server EXCEPT ![s] =
                              [@ EXCEPT !.pc = "status", !.jobStatus = jobStatus]]
    /\ UNCHANGED <<docs, en, translationCache, now, workerVars, dataVars, libVars>>

(* Requests to the server while one worker activation at a time processes  *)
(* a job for sv.                                                           *)
InitServe ==
    /\ jobs = <<NewJob("sv", PriorityOf("sv"), generateHash(1), 1)>>
    /\ docs = [l \in Locales |-> NoDoc]
    /\ en = 1
    /\ worker = [w \in AllWorkers |-> IdleWorker]
    /\ deviations = 0
    /\ persistedJobs = {}
    /\ marked = {}
    /\ InitRequests
    /\ InitLibrary

NextServe ==
    \/ Tick
    \/ \E s \in Servers : ServeStep(s)
    \/ WorkerStep("w1")

SpecServe == InitServe /\ [][NextServe]_vars

(* Requests with includeStatus while jobs are created and one worker       *)
(* activation at a time processes them.                                    *)
NextStatus ==
    \/ \E l \in Locales : Enqueue(l)
    \/ WorkerStep("w1")
    \/ \E s \in Servers : ServeStep(s) \/ GetTranslationStatus(s)

SpecStatus == Init /\ [][NextStatus]_vars

----------------------------------------------------------------------------
(* Extraction and rebuilding over JSON trees, and the fingerprint of a     *)
(* document.                                                               *)

MaxEntries == 2

KeyOrder == <<<<"home">>, <<"home", "title">>, <<"meta">>, <<"source">>, <<"title">>>>
Keys == {KeyOrder[n] : n \in 1..Len(KeyOrder)}
Rank(key) == CHOOSE n \in 1..Len(KeyOrder) : KeyOrder[n] = key
Texts == {"Home", " ", "https://x.se", "+46 70", "info@x.se", "SEK"}
Leaves == {Text(v) : v \in Texts} \cup {Number("42")}

(* The entry lists of an object: distinct keys, in insertion order         *)
EntriesOver(values) ==
    UNION {{e \in [1..n -> [key : Keys, value : values]] :
                \A i, j \in 1..n : i # j => e[i].key # e[j].key} : n \in 0..MaxEntries}

Inner == {Object(e) : e \in {e \in EntriesOver(Leaves) : Len(e) <= 1}}

(* The documents a run starts from: the top-level properties in the order  *)
(* of KeyOrder, the top-level texts all "Home"                             *)
InitialDocuments ==
    {D \in {Object(e) : e \in EntriesOver({Text("Home")} \cup Inner)} :
        \A i, j \in 1..Len(D.entries) :
            i < j => Rank(D.entries[i].key) < Rank(D.entries[j].key)}

skipKeys ==
    {<<"locale">>, <<"currency">>, <<"version">>, <<"lastUpdated">>,
     <<"translatedFrom">>, <<"translationProvider">>, <<"generatedOnDemand">>,
     <<"hash">>, <<"source">>, <<"phone">>, <<"email">>, <<"htmlLang">>,
     <<"dateFormat">>, <<"numberFormat">>}

skipPrefixes == {"meta", "_metadata", "seo"}

skipValues ==
    {"USD", "EUR", "SEK", "NOK", "DKK", "JPY", "CNY",
     "MM/DD/YYYY", "DD/MM/YYYY", "YYYY-MM-DD", "DD.MM.YYYY",
     "en-US", "sv-SE", "de-DE", "fr-FR", "es-ES", "it-IT", "pt-PT",
     "nl-NL", "da-DK", "no-NO", "fi-FI", "ja-JP", "zh-CN"}

(* The tests of a string value, over the texts of the model                *)
trim(value) == IF value \in {"", " "} THEN "" ELSE value
startsWithHttp(value) == value \in {"https://x.se"}
startsWithPlus(value) == value \in {"+46 70"}
includesAt(value) == value \in {"info@x.se"}
matchesTimestamp(value) == value \in {"2024-01-01T10:00:00Z"}

(* fullKey.startsWith(skipPrefix + '.')                                    *)
startsWith(fullKey, skipPrefix) == Len(fullKey) >= 2 /\ fullKey[1] = skipPrefix

(* The loop of extractTranslatableStrings over Object.entries(obj), from   *)
(* entry n on                                                              *)
RECURSIVE extractEntries(_, _, _)
extractEntries(entries, prefix, n) ==
    IF n > Len(entries) THEN <<>>
    ELSE LET key == entries[n].key
             value == entries[n].value
             fullKey == IF prefix # <<>> THEN prefix \o key ELSE key
             found ==
                IF key \in skipKeys THEN <<>>
                ELSE IF \E skipPrefix \in skipPrefixes : startsWith(fullKey, skipPrefix)
                THEN <<>>
                ELSE IF value.type = "string"
                THEN IF value.value \in skipValues THEN <<>>
                     ELSE IF /\ trim(value.value) # ""
                             /\ ~startsWithHttp(value.value)
                             /\ ~startsWithPlus(value.value)
                             /\ ~includesAt(value.value)
                             /\ ~matchesTimestamp(value.value)
                     THEN <<[key |-> fullKey, value |-> value.value]>>
                     ELSE <<>>
                ELSE IF value.type = "object"
                THEN extractEntries(value.entries, fullKey, 1)
                ELSE <<>>
         IN found \o extractEntries(entries, prefix, n + 1)

extractTranslatableStringsTree(obj, prefix) == extractEntries(obj.entries, prefix, 1)

(* current[key]: the position of the property, 0 when there is none        *)
IndexOf(entries, key) ==
    IF \E n \in 1..Len(entries) : entries[n].key = key
    THEN CHOOSE n \in 1..Len(entries) : entries[n].key = key
    ELSE 0

(* current[key] = value: in place, or as a new last property               *)
Put(obj, key, value) ==
    LET n == IndexOf(obj.entries, key)
    IN IF n = 0 THEN Object(Append(obj.entries, [key |-> key, value |-> value]))
       ELSE Object([obj.entries EXCEPT ![n].value = value])

Falsy(node) == node.type \in {"string", "number"} /\ node.value \in {"", "0"}

(* One iteration of the loop of rebuildObject: the walk along              *)
(* key.split('.') and the assignment.  An assignment to a property of a    *)
(* string or a number raises a TypeError (module code is strict).          *)
RECURSIVE Assign(_, _, _)
Assign(current, keys, value) ==
    IF current.type # "object" THEN TypeError
    ELSE IF Len(keys) = 1 THEN Put(current, <<keys[1]>>, Text(value))
    ELSE LET n == IndexOf(current.entries, <<keys[1]>>)
             child == IF n = 0 THEN Object(<<>>)
                      ELSE IF Falsy(current.entries[n].value) THEN Object(<<>>)
                      ELSE current.entries[n].value
             assigned == Assign(child, Tail(keys), value)
         IN IF assigned = TypeError THEN TypeError
            ELSE Put(current, <<keys[1]>>, assigned)

RECURSIVE rebuildFrom(_, _, _)
rebuildFrom(strings, result, n) ==
    IF n > Len(strings) \/ result = TypeError THEN result
    ELSE rebuildFrom(strings, Assign(result, strings[n].key, strings[n].value), n + 1)

rebuildObjectTree(strings, baseObj) == rebuildFrom(strings, baseObj, 1)

(* JSON.stringify: the text of a document as a sequence of tokens, the     *)
(* properties in insertion order                                           *)
RECURSIVE JSONstringify(_)
RECURSIVE stringifyEntries(_, _)
stringifyEntries(entries, n) ==
    IF n > Len(entries) THEN <<>>
    ELSE <<<<"key">> \o entries[n].key>> \o JSONstringify(entries[n].value)
            \o stringifyEntries(entries, n + 1)

JSONstringify(node) ==
    IF node.type = "object"
    THEN <<<<"{">>>> \o stringifyEntries(node.entries, 1) \o <<<<"}">>>>
    ELSE <<<<node.type, node.value>>>>

(* A document is taken, its strings are extracted, and the document is     *)
(* rebuilt from them over itself.                                          *)
InitExtraction ==
    /\ jobs = <<>>
    /\ docs = [l \in Locales |-> NoDoc]
    /\ en = 1
    /\ worker = [w \in AllWorkers |-> IdleWorker]
    /\ deviations = 0
    /\ persistedJobs = {}
    /\ marked = {}
    /\ InitRequests
    /\ loader = IdleLoader
    /\ extraction \in {[IdleExtraction EXCEPT !.pc = "input", !.D = D] : D \in InitialDocuments}

ExtractStrings ==
    /\ extraction.pc = "input"
    /\ extraction' = [extraction EXCEPT
          !.pc = "extracted",
          !.strings = extractTranslatableStringsTree(extraction.D, <<>>)]
    /\ UNCHANGED <<docs, en, deviations, loader, workerVars, dataVars, serveVars>>

RebuildDocument ==
    /\ extraction.pc = "extracted"
    /\ extraction' = [extraction EXCEPT
          !.pc = "rebuilt",
          !.result = rebuildObjectTree(extraction.strings, extraction.D)]
    /\ UNCHANGED <<docs, en, deviations, loader, workerVars, dataVars, serveVars>>

(* The batch loop with a well-formed translator: the k-th extracted key    *)
(* gets the k-th text the translator returned.                             *)
TranslatorOutputs == <<"T1", "T2", "T3", "T4">>

TranslateStrings ==
    /\ extraction.pc = "extracted"
    /\ Len(extraction.strings) <= Len(TranslatorOutputs)
    /\ extraction' = [extraction EXCEPT
          !.pc = "translated",
          !.translatedStrings =
              [k \in 1..Len(extraction.strings) |->
                  [key |-> extraction.strings[k].key, value |-> TranslatorOutputs[k]]]]
    /\ UNCHANGED <<docs, en, deviations, loader, workerVars, dataVars, serveVars>>

Index == <<"0", "1", "2", "3", "4", "5", "6", "7", "8", "9", "10", "11">>

(* The characters of a text of the model, as the properties that the       *)
(* spread of a string has                                                  *)
Characters(value) ==
    IF value = "Home" THEN <<"H", "o", "m", "e">>
    ELSE IF value = " " THEN <<" ">>
    ELSE IF value = "https://x.se"
    THEN <<"h", "t", "t", "p", "s", ":", "/", "/", "x", ".", "s", "e">>
    ELSE IF value = "+46 70" THEN <<"+", "4", "6", " ", "7", "0">>
    ELSE IF value = "info@x.se" THEN <<"i", "n", "f", "o", "@", "x", ".", "s", "e">>
    ELSE IF value = "SEK" THEN <<"S", "E", "K">>
    ELSE IF value \in {TranslatorOutputs[k] : k \in 1..Len(TranslatorOutputs)}
    THEN <<"T", CHOOSE d \in {"1", "2", "3", "4"} : value = TranslatorOutputs[
                    CHOOSE k \in 1..4 : Index[k + 1] = d]>>
    ELSE <<>>

(* {...node}: the own properties of an object, the characters of a string, *)
(* nothing for a number or for undefined                                   *)
Spread(obj, key) ==
    LET n == IndexOf(obj.entries, key)
    IN IF n = 0 THEN <<>>
       ELSE LET node == obj.entries[n].value
            IN IF node.type = "object" THEN node.entries
               ELSE IF node.type = "string"
               THEN [c \in 1..Len(Characters(node.value)) |->
                        [key |-> <<Index[c]>>, value |-> Text(Characters(node.value)[c])]]
               ELSE <<>>

(* The meta block and the completion marker of the document to persist,    *)
(* for the review (70, good); the dates are left out.                      *)
WithMeta(obj, locale) ==
    LET meta ==
            Put(Put(Put(Put(Put(Object(Spread(obj, <<"meta">>)),
                <<"locale">>, Text(locale)),
                <<"translatedFrom">>, Text("en")),
                <<"translationProvider">>, Text("openai-sequential")),
                <<"generatedOnDemand">>, Boolean("false")),
                <<"qualityReview">>,
                    Object(<<[key |-> <<"score">>, value |-> Number("70")],
                             [key |-> <<"status">>, value |-> Text("good")],
                             [key |-> <<"notes">>, value |-> Text("notes")]>>))
        status ==
            Object(<<[key |-> <<"status">>, value |-> Text("completed")],
                     [key |-> <<"quality">>, value |-> Text("good")],
                     [key |-> <<"done">>, value |-> Boolean("true")]>>)
    IN Put(Put(obj, <<"meta">>, meta), <<"_translationStatus">>, status)

(* rebuildObject(translatedStrings, englishSource) and the document that   *)
(* goes to the upload; a TypeError of rebuildObject ends the job in the    *)
(* catch block, with nothing to upload.                                    *)
RebuildTranslated ==
    /\ extraction.pc = "translated"
    /\ \E rebuilt \in {rebuildObjectTree(extraction.translatedStrings, extraction.D)} :
       \E locale \in Locales :
          extraction' = [extraction EXCEPT
              !.pc = IF rebuilt = TypeError THEN "failed" ELSE "persisted",
              !.result = IF rebuilt = TypeError THEN TypeError
                         ELSE WithMeta(rebuilt, locale)]
    /\ UNCHANGED <<docs, en, deviations, loader, workerVars, dataVars, serveVars>>

(* generateHash(JSON.stringify(englishSource))                             *)
Fingerprint ==
    /\ extraction.pc = "input"
    /\ extraction' = [extraction EXCEPT
          !.pc = "hashed",
          !.hash = generateHash(JSONstringify(extraction.D))]
    /\ UNCHANGED <<docs, en, deviations, loader, workerVars, dataVars, serveVars>>

(* The same document with its top-level properties inserted in the         *)
(* opposite order                                                          *)
Reversed(obj) ==
    Object([n \in 1..Len(obj.entries) |-> obj.entries[Len(obj.entries) + 1 - n]])

Reinsert ==
    /\ extraction.pc # "idle"
    /\ extraction' = [IdleExtraction EXCEPT !.pc = "input", !.D = Reversed(extraction.D)]
    /\ UNCHANGED <<docs, en, deviations, loader, workerVars, dataVars, serveVars>>

(* The document with one top-level leaf replaced                           *)
Edit(n, leaf) ==
    /\ extraction.pc # "idle"
    /\ n \in 1..Len(extraction.D.entries)
    /\ extraction' = [IdleExtraction EXCEPT
          !.pc = "input",
          !.D = Object([extraction.D.entries EXCEPT ![n].value = leaf])]
    /\ UNCHANGED <<docs, en, deviations, loader, workerVars, dataVars, serveVars>>

NextExtraction ==
    \/ ExtractStrings
    \/ RebuildDocument
    \/ TranslateStrings
    \/ RebuildTranslated
    \/ Fingerprint
    \/ Reinsert
    \/ \E n \in 1..MaxEntries, leaf \in Leaves : Edit(n, leaf)

SpecExtraction == InitExtraction /\ [][NextExtraction]_vars

----------------------------------------------------------------------------
(* The client loader: loadTranslations of the site over the EdgeTranslator *)
(* that fetches from the translation server.                               *)

TranslatorCacheTTL == 5

(* The translation in a successful response of the server                  *)
ServerTranslation(l) ==
    IF l \in Locales /\ docs[l].present THEN docs[l] ELSE SourceDocument(en)

(* The final fallback of EdgeTranslator.loadTranslation, and the {} of     *)
(* loadTranslations                                                        *)
ErrorDocument(l) == [present |-> TRUE, meta |-> [locale |-> l, error |-> TRUE]]

EmptyDocument == [present |-> TRUE, strings |-> <<>>]

(* EdgeTranslator.loadTranslation after its fetch: ok tells whether the    *)
(* response was ok with success; at is the Date.now() taken at the call.   *)
(* It returns the translation and caches it, or returns the cached copy    *)
(* (expired or not) or the error document; it raises in no case.           *)
loadTranslationCachingErrors(cache, l, at, ok) ==
    IF ok
    THEN [raised |-> FALSE, value |-> ServerTranslation(l),
          cache |-> [cache EXCEPT ![l] =
                        [present |-> TRUE, data |-> ServerTranslation(l), timestamp |-> at]]]
    ELSE [raised |-> FALSE,
          value |-> IF cache[l].present THEN cache[l].data ELSE ErrorDocument(l),
          cache |-> [cache EXCEPT ![l] =
                        [present |-> TRUE,
                         data |-> IF cache[l].present THEN cache[l].data ELSE ErrorDocument(l),
                         timestamp |-> at]]]

loadTranslation(cache, l, at, ok) ==
    IF ok
    THEN [raised |-> FALSE, value |-> ServerTranslation(l),
          cache |-> [cache EXCEPT ![l] =
                        [present |-> TRUE, data |-> ServerTranslation(l), timestamp |-> at]]]
    ELSE [raised |-> FALSE,
          value |-> IF cache[l].present THEN cache[l].data ELSE ErrorDocument(l),
          cache |-> cache]

(* The cache test at the start of EdgeTranslator.loadTranslation           *)
FreshlyCached(cache, l, at) ==
    cache[l].present /\ (at - cache[l].timestamp) < TranslatorCacheTTL

(* loadTranslations from the return of translator.loadTranslation on:      *)
(* the try block stores and returns the translations; the catch block      *)
(* takes the local copy, loads the default locale (from the translator's   *)
(* cache or by a fetch), or returns {}.                                    *)
AfterLoad(ld, l, loaded, failed, at) ==
    IF ~loaded.raised
    THEN [ld EXCEPT !.pc = "done", !.locale = l, !.failed = failed,
                    !.cache = loaded.cache,
                    !.translationCache[l] = [present |-> TRUE, data |-> loaded.value],
                    !.result = loaded.value]
    ELSE IF ld.translationCache[l].present
    THEN [ld EXCEPT !.pc = "done", !.locale = l, !.failed = TRUE,
                    !.result = ld.translationCache[l].data]
    ELSE IF l # defaultLocale
    THEN IF FreshlyCached(ld.cache, defaultLocale, at)
         THEN [ld EXCEPT !.pc = "done", !.locale = defaultLocale, !.failed = TRUE,
                         !.translationCache[defaultLocale] =
                             [present |-> TRUE, data |-> ld.cache[defaultLocale].data],
                         !.result = ld.cache[defaultLocale].data]
         ELSE [ld EXCEPT !.pc = "fetch", !.locale = defaultLocale, !.now = at,
                         !.failed = TRUE]
    ELSE [ld EXCEPT !.pc = "done", !.locale = l, !.failed = TRUE, !.result = EmptyDocument]

(* loadTranslations(locale) up to the fetch of the translator: a cached    *)
(* translation younger than the TTL is returned at once.                   *)
LoadTranslations(l) ==
    /\ loader.pc \in {"idle", "done", "cleared", "refreshed"}
    /\ loader' =
            IF FreshlyCached(loader.cache, l, now)
            THEN AfterLoad([loader EXCEPT !.now = now], l,
                           [raised |-> FALSE, value |-> loader.cache[l].data,
                            cache |-> loader.cache],
                           FALSE, now)
            ELSE [loader EXCEPT !.pc = "fetch", !.locale = l, !.now = now,
                                !.failed = FALSE, !.result = NoDoc]
    /\ UNCHANGED <<docs, en, deviations, extraction, workerVars, dataVars, serveVars>>

(* The fetch answers, or fails (network error, status not ok, success      *)
(* false).                                                                 *)
LoadResponse ==
    /\ loader.pc = "fetch"
    /\ \E outcome \in Outcomes({"ok"}, {"error"}) :
          /\ deviations' = deviations + Deviates(outcome, {"ok"})
          /\ loader' = AfterLoad(loader, loader.locale,
                                 loadTranslation(loader.cache, loader.locale,
                                                 loader.now, outcome = "ok"),
                                 outcome # "ok", now)
    /\ UNCHANGED <<docs, en, extraction, workerVars, dataVars, serveVars>>

(* clearCache(locale?): the entry of the locale is deleted, or, without a  *)
(* locale, every entry                                                     *)
clearCacheAll(cache, locale) == [l \in ClientLocales |-> NoEntry]

clearCache(cache, locale) ==
    IF locale # "" THEN [cache EXCEPT ![locale] = NoEntry]
    ELSE [l \in ClientLocales |-> NoEntry]

ClearCache(locale) ==
    /\ loader.pc \in {"idle", "done", "cleared", "refreshed"}
    /\ loader' = [loader EXCEPT !.pc = "cleared", !.locale = locale,
                                !.cache = clearCache(loader.cache, locale),
                                !.failed = FALSE, !.result = NoDoc]
    /\ UNCHANGED <<docs, en, deviations, extraction, workerVars, dataVars, serveVars>>

(* refreshTranslation(locale): clearCache(locale), then loadTranslation up *)
(* to its fetch                                                            *)
RefreshTranslation(l) ==
    /\ loader.pc \in {"idle", "done", "cleared", "refreshed"}
    /\ \E cache \in {clearCache(loader.cache, l)} :
          loader' =
            IF FreshlyCached(cache, l, now)
            THEN [loader EXCEPT !.pc = "refreshed", !.locale = l, !.now = now,
                                !.cache = cache, !.failed = FALSE,
                                !.result = cache[l].data]
            ELSE [loader EXCEPT !.pc = "refetch", !.locale = l, !.now = now,
                                !.cache = cache, !.failed = FALSE, !.result = NoDoc]
    /\ UNCHANGED <<docs, en, deviations, extraction, workerVars, dataVars, serveVars>>

(* The fetch of refreshTranslation answers, or fails                       *)
RefreshResponse ==
    /\ loader.pc = "refetch"
    /\ \E outcome \in Outcomes({"ok"}, {"error"}) :
          /\ deviations' = deviations + Deviates(outcome, {"ok"})
          /\ \E loaded \in {loadTranslation(loader.cache, loader.locale,
                                             loader.now, outcome = "ok")} :
                loader' = [loader EXCEPT !.pc = "refreshed", !.failed = outcome # "ok",
                                         !.cache = loaded.cache, !.result = loaded.value]
    /\ UNCHANGED <<docs, en, extraction, workerVars, dataVars, serveVars>>

NextClient ==
    \/ Tick
    \/ Publish
    \/ \E l \in ClientLocales : LoadTranslations(l)
    \/ LoadResponse
    \/ \E locale \in ClientLocales \cup {""} : ClearCache(locale)
    \/ \E l \in ClientLocales : RefreshTranslation(l)
    \/ RefreshResponse

SpecClient == Init /\ [][NextClient]_vars

----------------------------------------------------------------------------
(* C1: leasing exclusivity.  Of two activations that attempt to lease the  *)
(* same pending job only one moves it to processing and processes it: no   *)
(* two activations are ever inside processTranslationJob, past the lease,  *)
(* with the same job.                                                      *)
C1_LeasingExclusivity ==
    \A w1, w2 \in AllWorkers :
        (w1 # w2 /\ InProcessing(worker[w1]) /\ InProcessing(worker[w2]))
            => worker[w1].job.job_id # worker[w2].job.job_id

(* C2: in every reachable state at most one job per locale has status      *)
(* processing.                                                             *)
ProcessingJobs(l) ==
    {j \in JobIds(jobs) : jobs[j].locale = l /\ jobs[j].status = "processing"}

C2_OneProcessingPerLocale ==
    \A l \in Locales : Cardinality(ProcessingJobs(l)) <= 1

(* C3: a job starts pending and its status changes only along              *)
(* pending -> processing -> completed or failed; completed and failed are  *)
(* never left.                                                             *)
StatusSteps ==
    {<<"pending", "processing">>, <<"processing", "completed">>, <<"processing", "failed">>}

C3_StatusTransitions ==
    [][/\ \A j \in JobIds(jobs) :
            \/ jobs'[j].status = jobs[j].status
            \/ <<jobs[j].status, jobs'[j].status>> \in StatusSteps
       /\ \A j \in JobIds(jobs') \ JobIds(jobs) : jobs'[j].status = "pending"]_vars

(* C4: whenever a job moves from pending to processing, it is at that      *)
(* moment an eligible job (pending, attempts < 3) that no other eligible   *)
(* job precedes in (priority, created_at) order.                           *)
C4_LeaseOrder ==
    [][\A j \in JobIds(jobs) :
            (jobs[j].status = "pending" /\ jobs'[j].status = "processing")
                => j \in get_next_translation_job(jobs)]_vars

(* C5: in every reachable state every job has attempts <= 3.               *)
C5_AttemptsBounded ==
    \A j \in JobIds(jobs) : jobs[j].attempts <= MaxAttempts

(* C6: a job that failed because the translation call raised, with         *)
(* attempts below 3, stays eligible for a later lease.                     *)
TransientErrors == {<<"OpenAI API error">>}

C6_TransientFailureStaysEligible ==
    \A j \in JobIds(jobs) :
        (/\ jobs[j].status = "failed"
         /\ jobs[j].error_message \in TransientErrors
         /\ jobs[j].attempts < MaxAttempts)
            => j \in Eligible(jobs)

(* C7: when the translator returns, for some batch of a run, a number of   *)
(* items different from the number of texts sent, the run goes to the      *)
(* failure handler with the count mismatch as its error, never to the      *)
(* review or the upload; its next step sets the job failed with that       *)
(* error_message and writes nothing to the document store.                 *)
MismatchCaught(wk) ==
    /\ wk.pc = "catch"
    /\ Len(wk.error) = 3
    /\ wk.error[1] = "Translation count mismatch"
    /\ wk.error[2] # wk.error[3]

C8_CompletedOnlyIfPersisted ==
    \A j \in JobIds(jobs) : jobs[j].status = "completed" => j \in persistedJobs

(* C9: every document in the document store carries the completion marker  *)
(* (done = true) if and only if the review score in its meta is >= 70.     *)
HasDoneMarker(doc) ==
    IF doc.translationStatus.present THEN doc.translationStatus.done ELSE FALSE

C9_MarkerIffScore ==
    \A l \in Locales :
        docs[l].present
            => (HasDoneMarker(docs[l]) <=> docs[l].meta.qualityReview.score >= DoneThreshold)

(* A locale whose document once carried the marker was rewritten with      *)
(* score 69 and carries none.                                              *)
C9_Witness ==
    \E l \in marked :
        /\ docs[l].present
        /\ docs[l].meta.qualityReview.score = DoneThreshold - 1
        /\ ~docs[l].translationStatus.present

(* C10: a run whose review response does not parse gets the review         *)
(* (0, review_failed, failure reason) and is not failed by it: it goes on  *)
(* to upload a document without completion marker, and then sets the job   *)
(* completed and its review status review_failed.                          *)
ReviewUnparsed(wk) == wk.reviewText = "garbage"

ReviewFailed ==
    [score |-> 0, status |-> "review_failed", notes |-> "Review failed: JSON parse error"]

ReviewStatusOf(score) ==
    IF score >= 90 THEN "excellent"
    ELSE IF score >= 70 THEN "good"
    ELSE IF score >= 50 THEN "needs_review"
    ELSE "poor"

C11_StatusFollowsScore ==
    /\ \A j \in JobIds(jobs) :
          jobs[j].ai_review_status \notin {"pending", "review_failed"}
              => /\ jobs[j].ai_review_score # <<>>
                 /\ jobs[j].ai_review_status = ReviewStatusOf(jobs[j].ai_review_score[1])
    /\ \A l \in Locales :
          (docs[l].present /\ docs[l].meta.qualityReview.status # "review_failed")
              => docs[l].meta.qualityReview.status =
                     ReviewStatusOf(docs[l].meta.qualityReview.score)

(* C12: every activation returns after leasing at most 5 jobs, and the      *)
(* count it returns (processedCount at the return) is the number of jobs   *)
(* it leased, 0 when it found no eligible job.                             *)
C12_BoundedActivation ==
    /\ [](\A w \in AllWorkers : worker[w].leased <= MaxJobsPerInvocation)
    /\ [][\A w \in AllWorkers :
            (worker[w].pc = "loop" /\ worker'[w].pc = "idle")
                => /\ worker[w].processedCount = worker[w].leased
                   /\ worker[w].processedCount <= MaxJobsPerInvocation]_vars
    /\ \A w \in AllWorkers : (worker[w].pc # "idle") ~> (worker[w].pc = "idle")

(* An activation about to return the count 5 while eligible jobs remain.   *)
C12_Witness ==
    /\ worker["w1"].pc = "loop"
    /\ worker["w1"].processedCount = MaxJobsPerInvocation
    /\ worker["w1"].leased = MaxJobsPerInvocation
    /\ Eligible(jobs) # {}

(* C13: whatever fails while a job is processed, the run ends inside the   *)
(* handler (the job is counted and the loop goes on to its normal return)  *)
(* and the failure is on the job record: a run that ends through the       *)
(* failure handler, or whose storage write failed, leaves the job failed   *)
(* with an error_message.                                                  *)
RunFailed(wk) == wk.pc = "catch" \/ wk.job.job_id \notin persistedJobs

C13_FailuresRecorded ==
    [][\A w \in AllWorkers :
          (worker[w].pc \in {"ai_review", "catch"} /\ worker'[w].pc = "loop")
              => /\ worker'[w].processedCount = worker[w].processedCount + 1
                 /\ RunFailed(worker[w])
                       => /\ jobs'[worker[w].job.job_id].status = "failed"
                          /\ jobs'[worker[w].job.job_id].error_message # NoError]_vars

(* C14: the document a run persists for a job with source_hash F is the    *)
(* translation of the source document whose fingerprint is F, also when    *)
(* the source was republished between the job's creation and its run.      *)
TranslationOf(v, l) == [k \in 1..NStrings |-> Translation(l, SourceText(v, k))]

C14_PinnedToFingerprint ==
    [][\A w \in AllWorkers :
          LET wk == worker[w]
              l == wk.job.locale
          IN (wk.pc = "upload" /\ docs'[l] # docs[l])
                => \E v \in 1..MaxVersions :
                      /\ generateHash(v) = wk.job.source_hash
                      /\ docs'[l].strings = TranslationOf(v, l)]_vars

(* C15: a locale whose translation is stored and recorded in the metadata  *)
(* with the source hash F is considered fresh exactly when the hash of the *)
(* live source is F; a change of the source makes every locale stale, a    *)
(* stale locale becomes fresh only when a generation records its hash, and *)
(* a generation that records the hash of the live source makes its locale  *)
(* fresh.                                                                  *)
Fresh(l) == isTranslationFresh(docs[l], metadata, SourceDocument(en), l).fresh

C16_RegenerateProducesFresh ==
    \A s \in Servers :
        server[s].pc = "regenerated"
            => LET l == server[s].locale
                   result == server[s].response
               IN /\ result.success
                  /\ docs[l].present
                  /\ docs[l].strings = TranslationOf(en, l)
                  /\ result.translation.document = docs[l]
                  /\ ~result.translation._fallback

(* C17: the job table is append-only.  No step removes a row; the locale,  *)
(* priority, source_hash and created_at of a row never change; and a row   *)
(* changes only in a step of a worker activation that is processing that   *)
(* job (its status and review updates).                                    *)
WorkerUpdates(w, j) ==
    /\ worker[w].pc \in {"lease", "complete", "ai_review", "catch"}
    /\ worker[w].job.job_id = j
    /\ worker'[w] # worker[w]

C17_JobsAppendOnly ==
    [][/\ Len(jobs') >= Len(jobs)
       /\ \A j \in JobIds(jobs) :
            /\ jobs'[j].locale = jobs[j].locale
            /\ jobs'[j].priority = jobs[j].priority
            /\ jobs'[j].source_hash = jobs[j].source_hash
            /\ jobs'[j].created_at = jobs[j].created_at
            /\ jobs'[j] # jobs[j] => \E w \in AllWorkers : WorkerUpdates(w, j)]_vars

(* A table of two rows, both changed by the worker: one completed and      *)
(* reviewed, one failed.                                                   *)
C17_Witness ==
    \E j, k \in JobIds(jobs) :
        /\ jobs[j].status = "completed"
        /\ jobs[j].ai_review_status # "pending"
        /\ jobs[k].status = "failed"
        /\ jobs[k].error_message # NoError

(* A step in which server s answers a request with a document.             *)
Answers(s) ==
    /\ server'[s] # server[s]
    /\ server'[s].pc = "done"
    /\ server'[s].response.status = 200

C19_CachedReflectsHit ==
    \A s \in Servers :
        (server[s].pc = "done" /\ server[s].response.status = 200)
            => (server[s].response.cached <=> server[s].hit)

(* C20: every request for a supported locale is answered successfully and  *)
(* with a document, whatever the store delivers.                           *)
C20_ServeNeverFails ==
    \A s \in Servers :
        server[s].pc = "done"
            => /\ server[s].response.status = 200
               /\ server[s].response.success
               /\ server[s].response.translation.document.present

(* C21: a request whose locale is missing or unsupported is answered 400   *)
(* with the list of supported codes, in the step that receives it (no      *)
(* read of the document store follows), and leaves the cache and the       *)
(* stores unchanged.                                                       *)
C21_InvalidLocaleRejected ==
    [][\A s \in Servers :
        (server'[s] # server[s] /\ server'[s].locale \notin supportedLocales)
            => /\ server'[s].pc = "rejected"
               /\ server'[s].response.status = 400
               /\ ~server'[s].response.success
               /\ server'[s].response.supportedLocales = supportedLocales
               /\ translationCache' = translationCache
               /\ docs' = docs /\ jobs' = jobs]_vars

(* A rejected request on a server whose cache holds a document.            *)
C21_Witness ==
    \E s \in Servers :
        /\ server[s].pc = "rejected"
        /\ server[s].locale \in {"", "xx"}
        /\ server[s].response.status = 400
        /\ \E l \in Locales : translationCache[l].present

(* C22: a read that misses the cache and answers with a document, the      *)
(* locale's or the English fallback, stores exactly that document under    *)
(* the requested locale with the current time; a read that fails leaves    *)
(* the cache unchanged.                                                    *)
C22_ReadPopulatesCache ==
    [][\A s \in Servers :
        (server[s].pc \in {"download", "fallback"} /\ server'[s] # server[s])
            => LET l == server[s].locale
               IN IF Answers(s)
                  THEN translationCache' =
                          [translationCache EXCEPT ![l] =
                              [present |-> TRUE,
                               data |-> server'[s].response.translation,
                               timestamp |-> now]]
                  ELSE translationCache' = translationCache]_vars

(* A read that missed the cache has answered and left an entry behind.     *)
C22_Witness ==
    \E s \in Servers, l \in Locales :
        /\ server[s].pc = "done"
        /\ ~server[s].hit
        /\ server[s].locale = l
        /\ server[s].response.status = 200
        /\ translationCache[l].present
        /\ translationCache[l].timestamp = now
        /\ now > 0
        /\ translationCache[l].data._fallback

(* C23: a request with force = true is never answered from the cache.      *)
C23_ForceBypassesCache ==
    \A s \in Servers :
        (server[s].pc = "done" /\ server[s].force) => ~server[s].hit

(* C24: readers never write.  Every step that changes the document store   *)
(* or the job table is a step of a worker activation; a request to the     *)
(* server or to the on-demand generator changes neither.                   *)
C24_ReadersNeverWrite ==
    [][(docs' # docs \/ jobs' # jobs)
          => \E w \in AllWorkers : worker'[w] # worker[w]]_vars

(* C25: extract/rebuild round trip.  Rebuilding a document from its own    *)
(* extracted strings gives the document back, for every document, and      *)
(* leaves the document passed as base as it was.                           *)
C25_RoundTrip ==
    extraction.pc = "rebuilt" => extraction.result = extraction.D

(* C26: the extracted list holds, in depth-first order, exactly the leaves *)
(* that are strings, whose dotted path starts with no exclusion prefix,    *)
(* whose own key is not an excluded key, and whose value is neither        *)
(* phone-, email-, timestamp- or URL-shaped nor an excluded literal.       *)
RECURSIVE LeavesOf(_, _, _)
LeavesOf(entries, prefix, n) ==
    IF n > Len(entries) THEN <<>>
    ELSE LET path == prefix \o entries[n].key
             node == entries[n].value
         IN (IF node.type = "object"
             THEN LeavesOf(node.entries, path, 1)
             ELSE <<[path |-> path, key |-> entries[n].key, node |-> node]>>)
            \o LeavesOf(entries, prefix, n + 1)

Translatable(leaf) ==
    /\ leaf.node.type = "string"
    /\ ~\E skipPrefix \in skipPrefixes : startsWith(leaf.path, skipPrefix)
    /\ leaf.key \notin skipKeys
    /\ ~startsWithPlus(leaf.node.value)
    /\ ~includesAt(leaf.node.value)
    /\ ~matchesTimestamp(leaf.node.value)
    /\ ~startsWithHttp(leaf.node.value)
    /\ leaf.node.value \notin skipValues

TranslatableLeaves(D) ==
    LET leaves == SelectSeq(LeavesOf(D.entries, <<>>, 1), Translatable)
    IN [n \in 1..Len(leaves) |-> [key |-> leaves[n].path, value |-> leaves[n].node.value]]

C26_ExtractedLeaves ==
    extraction.pc = "extracted" => extraction.strings = TranslatableLeaves(extraction.D)

(* C27: fingerprint stability.  Two documents with the same properties,    *)
(* inserted in a different order, have the same fingerprint; two documents *)
(* that differ in a leaf have different fingerprints.                      *)
FingerprintOf(D) == generateHash(JSONstringify(D))

SameProperties(A, B) ==
    /\ Len(A.entries) = Len(B.entries)
    /\ \A i \in 1..Len(A.entries) : \E j \in 1..Len(B.entries) : A.entries[i] = B.entries[j]

C27_FingerprintStable ==
    [][extraction.pc # "idle" =>
          IF SameProperties(extraction.D, extraction'.D)
          THEN FingerprintOf(extraction'.D) = FingerprintOf(extraction.D)
          ELSE FingerprintOf(extraction'.D) # FingerprintOf(extraction.D)]_vars

(* C28: loadTranslations returns the translator's result when the load     *)
(* succeeds; when it fails, the local copy for the locale, else for a      *)
(* locale other than the default the result of loading the default         *)
(* locale, else the empty document; and a failed load does not change the  *)
(* local cache.                                                            *)
DefaultLocaleResults == {SourceDocument(v) : v \in 1..MaxVersions} \cup {EmptyDocument}

C28_LoaderFallback ==
    [][(loader' # loader /\ loader'.pc = "done" /\ loader'.failed)
          => LET l == loader.locale
             IN /\ loader'.translationCache = loader.translationCache
                /\ IF loader.translationCache[l].present
                   THEN loader'.result = loader.translationCache[l].data
                   ELSE IF l # defaultLocale
                   THEN loader'.result \in DefaultLocaleResults
                   ELSE loader'.result = EmptyDocument]_vars

(* C29: queue progress.  With no job added and the worker triggered again  *)
(* and again, every pending job with attempts below 3 eventually is        *)
(* completed or failed, and no job stays in processing forever.            *)
Settled(j) == jobs[j].status \in {"completed", "failed"}

RECURSIVE Flatten(_)
Flatten(batches) ==
    IF batches = <<>> THEN <<>> ELSE Head(batches) \o Flatten(Tail(batches))

ExtractedTexts(wk) ==
    [k \in 1..Len(extractTranslatableStrings(wk.englishSource)) |->
        extractTranslatableStrings(wk.englishSource)[k].value]

C31_BatchesInOrderReviewOnce ==
    \A w \in AllWorkers :
        LET wk == worker[w] IN
        (InProcessing(wk) /\ wk.englishSource.present)
            => LET extracted == ExtractedTexts(wk)
                   issued == Flatten(wk.sent)
               IN /\ \A b \in 1..Len(wk.sent) :
                        wk.sent[b] = SubSeq(extracted, batchSize * (b - 1) + 1,
                                            Min(batchSize * b, Len(extracted)))
                  /\ wk.pc = "translate" => Len(wk.translatedStrings) = Len(issued)
                  /\ wk.pc \in {"translate", "review"} => wk.reviewed = <<>>
                  /\ wk.pc \in {"upload", "complete", "ai_review"} => Len(wk.reviewed) = 1
                  /\ Len(wk.reviewed) <= 1
                  /\ \A r \in 1..Len(wk.reviewed) :
                        /\ issued = extracted
                        /\ wk.reviewed[r].originalTexts = extracted
                        /\ Len(wk.reviewed[r].translatedTexts) = Len(extracted)
                        /\ wk.reviewed[r].translatedTexts =
                              [k \in 1..Len(wk.translatedStrings) |->
                                  wk.translatedStrings[k].value]

(* A job past its review: two batches were issued and the reviewer got     *)
(* both lists in full.                                                     *)
C31_Witness ==
    \E w \in AllWorkers :
        /\ worker[w].pc = "upload"
        /\ Len(worker[w].sent) = 2
        /\ Len(worker[w].sent[2]) = NStrings - batchSize
        /\ Len(worker[w].reviewed) = 1
        /\ Len(worker[w].reviewed[1].originalTexts) = NStrings
        /\ Len(worker[w].reviewed[1].translatedTexts) = NStrings

(* C32: positional correspondence.  In the document a job persists, the    *)
(* property at the k-th extracted path holds the k-th text the translator  *)
(* returned, for every k, and a text the translator returned is stored     *)
(* under no other path.  A path is the sequence of the property names      *)
(* from the root to the leaf.                                              *)
Missing == [type |-> "undefined"]

RECURSIVE ValueAt(_, _)
ValueAt(node, path) ==
    IF path = <<>> THEN node
    ELSE IF node.type # "object" THEN Missing
    ELSE LET n == IndexOf(node.entries, Head(path))
         IN IF n = 0 THEN Missing ELSE ValueAt(node.entries[n].value, Tail(path))

(* The paths of the leaves that extraction returns, in its order           *)
RECURSIVE ExtractedPaths(_, _, _, _)
ExtractedPaths(entries, prefix, path, n) ==
    IF n > Len(entries) THEN <<>>
    ELSE LET entry == entries[n]
         IN (IF extractEntries(<<entry>>, prefix, 1) = <<>> THEN <<>>
             ELSE IF entry.value.type = "object"
             THEN ExtractedPaths(entry.value.entries, prefix \o entry.key,
                                 Append(path, entry.key), 1)
             ELSE <<Append(path, entry.key)>>)
            \o ExtractedPaths(entries, prefix, path, n + 1)

(* The leaves of a document with their paths                               *)
RECURSIVE StoredLeaves(_, _, _)
StoredLeaves(entries, path, n) ==
    IF n > Len(entries) THEN <<>>
    ELSE LET node == entries[n].value
             here == Append(path, entries[n].key)
         IN (IF node.type = "object" THEN StoredLeaves(node.entries, here, 1)
             ELSE <<[path |-> here, node |-> node]>>)
            \o StoredLeaves(entries, path, n + 1)

C32_PositionalCorrespondence ==
    extraction.pc = "persisted"
        => LET paths == ExtractedPaths(extraction.D.entries, <<>>, <<>>, 1)
               outputs == [k \in 1..Len(extraction.translatedStrings) |->
                              extraction.translatedStrings[k].value]
               stored == StoredLeaves(extraction.result.entries, <<>>, 1)
           IN /\ Len(paths) = Len(outputs)
              /\ \A k \in 1..Len(paths) :
                    ValueAt(extraction.result, paths[k]) = Text(outputs[k])
              /\ \A n \in 1..Len(stored) : \A k \in 1..Len(outputs) :
                    stored[n].node = Text(outputs[k]) => stored[n].path = paths[k]

(* C33: bounded staleness of the server.  A request is answered from the   *)
(* cache only while the entry is younger than the TTL, and once the stored *)
(* document of a locale has been unchanged for a full TTL (it was written  *)
(* at least CACHE_TTL minutes ago) every answer for the locale carries     *)
(* that document, not a fallback cached before the write.                  *)
C33_BoundedStaleness ==
    [][\A s \in Servers : Answers(s) =>
        LET l == server'[s].locale
            response == server'[s].response
        IN /\ server'[s].hit => now - translationCache[l].timestamp < CACHE_TTL
           /\ (docs[l].present /\ now - docs[l].meta.lastUpdated >= CACHE_TTL)
                => /\ response.translation.document = docs[l]
                   /\ ~response.fallback]_vars

(* C34: the job status in a response is the state of the most recently     *)
(* created job of the locale (none of the locale's jobs has a greater      *)
(* created_at), or no_job when the locale has no job; when the query       *)
(* fails it is unknown and reports no job.  An older job is never          *)
(* reported while a newer one exists.                                      *)
C34_StatusOfLatestJob ==
    [][\A s \in Servers :
          (server'[s] # server[s] /\ server'[s].pc = "status")
              => LET l == server[s].locale
                     reported == server'[s].jobStatus
                     ofLocale == {j \in JobIds(jobs) : jobs[j].locale = l}
                 IN \/ reported = [status |-> "unknown"] /\ deviations' > deviations
                    \/ reported = [status |-> "no_job"] /\ ofLocale = {}
                    \/ \E j \in ofLocale :
                          /\ reported = JobStatus(jobs[j])
                          /\ \A k \in ofLocale : jobs[k].created_at <= jobs[j].created_at]_vars

(* The status of the second job of a locale is reported, pending, while    *)
(* the locale's first job is completed.                                    *)
C34_Witness ==
    \E s \in Servers :
        /\ server[s].pc = "status"
        /\ Len(jobs) = 2
        /\ jobs[1].locale = server[s].locale
        /\ jobs[2].locale = server[s].locale
        /\ jobs[1].status = "completed"
        /\ jobs[2].status = "pending"
        /\ server[s].jobStatus = JobStatus(jobs[2])

(* C35: a job is moved to processing only from pending; a job left in      *)
(* processing by an activation that was cut off (no activation holds it    *)
(* any more) is not among the rows get_next_translation_job may return,    *)
(* and no later step changes it.                                           *)
Held(j) == \E w \in AllWorkers : worker[w].pc # "idle" /\ worker[w].job.job_id = j

Abandoned(j) == jobs[j].status = "processing" /\ ~Held(j)

C35_LeasedOnlyFromPending ==
    [][\A j \in JobIds(jobs) :
          /\ jobs'[j].attempts > jobs[j].attempts => jobs[j].status = "pending"
          /\ Abandoned(j) => /\ j \notin get_next_translation_job(jobs)
                             /\ jobs'[j] = jobs[j]]_vars

(* C36: in every state a completed job carries the review of the document  *)
(* it persisted: its ai_review_status and ai_review_score are the status   *)
(* and the score in meta.qualityReview of the stored document of its       *)
(* locale (every locale has one job here), and are never still pending.    *)
C36_CompletedJobCarriesReview ==
    \A j \in JobIds(jobs) :
        jobs[j].status = "completed"
            => /\ jobs[j].ai_review_status # "pending"
               /\ docs[jobs[j].locale].present
               /\ jobs[j].ai_review_status = docs[jobs[j].locale].meta.qualityReview.status
               /\ jobs[j].ai_review_score = <<docs[jobs[j].locale].meta.qualityReview.score>>

(* C37: the translator is passed the extracted leaves only, and every leaf *)
(* of the source document outside meta that extraction does not return     *)
(* has in the persisted document the value it has in the source.           *)
C37_OpaqueLeavesKept ==
    extraction.pc = "persisted"
        => LET paths == ExtractedPaths(extraction.D.entries, <<>>, <<>>, 1)
               leaves == StoredLeaves(extraction.D.entries, <<>>, 1)
           IN /\ Len(extraction.strings) = Len(paths)
              /\ \A k \in 1..Len(paths) :
                    Text(extraction.strings[k].value) = ValueAt(extraction.D, paths[k])
              /\ \A n \in 1..Len(leaves) :
                    (/\ Head(leaves[n].path) # <<"meta">>
                     /\ \A k \in 1..Len(paths) : paths[k] # leaves[n].path)
                        => ValueAt(extraction.result, leaves[n].path) = leaves[n].node

(* C38: EdgeTranslator.loadTranslation never raises.  With an entry        *)
(* younger than the TTL it returns the entry without a request; otherwise  *)
(* it fetches.  A successful fetch is returned and stored with the time    *)
(* of the call; after a failed fetch the expired entry is returned when    *)
(* there is one, else the error document, and the cache is unchanged.      *)
C38_TranslatorNeverThrows ==
    /\ [](loader.pc = "fetch" =>
            \A ok \in BOOLEAN :
                ~loadTranslation(loader.cache, loader.locale, loader.now, ok).raised)
    /\ [][loader' # loader =>
            /\ loader.pc = "fetch"
                 => LET l == loader.locale
                    IN /\ loader'.pc = "done"
                       /\ IF loader'.failed
                          THEN /\ loader'.cache = loader.cache
                               /\ loader'.result = IF loader.cache[l].present
                                                   THEN loader.cache[l].data
                                                   ELSE ErrorDocument(l)
                          ELSE /\ loader'.result = ServerTranslation(l)
                               /\ loader'.cache =
                                     [loader.cache EXCEPT ![l] =
                                         [present |-> TRUE, data |-> loader'.result,
                                          timestamp |-> loader.now]]
            /\ (loader.pc # "fetch" /\ loader'.pc \in {"done", "fetch"})
                 => LET l == loader'.locale
                    IN /\ loader'.cache = loader.cache
                       /\ IF FreshlyCached(loader.cache, l, now)
                          THEN /\ loader'.pc = "done"
                               /\ ~loader'.failed
                               /\ loader'.result = loader.cache[l].data
                          ELSE loader'.pc = "fetch"]_vars

(* A failed fetch was answered with the expired entry, which is still the  *)
(* entry of the cache.                                                     *)
C38_Witness ==
    /\ loader.pc = "done"
    /\ loader.failed
    /\ loader.cache[loader.locale].present
    /\ now - loader.cache[loader.locale].timestamp >= TranslatorCacheTTL
    /\ loader.result = loader.cache[loader.locale].data

(* C39: refreshTranslation(locale) always issues a request and is never    *)
(* answered from the entry cached before the call; clearCache(locale) and  *)
(* refreshTranslation(locale) leave the entries of the other locales as    *)
(* they are.                                                               *)
OthersUnchanged(l) ==
    \A other \in ClientLocales \ {l} : loader'.cache[other] = loader.cache[other]

C39_RefreshBypassesCache ==
    /\ [](loader.pc = "refetch" => ~loader.cache[loader.locale].present)
    /\ [][loader' # loader =>
            LET l == loader'.locale
            IN /\ (loader'.pc = "cleared" /\ l # "")
                    => ~loader'.cache[l].present /\ OthersUnchanged(l)
               /\ (loader.pc # "refetch" /\ loader'.pc \in {"refetch", "refreshed"})
                    => /\ loader'.pc = "refetch"
                       /\ ~loader'.cache[l].present
                       /\ OthersUnchanged(l)
               /\ loader.pc = "refetch"
                    => /\ loader'.pc = "refreshed"
                       /\ loader'.result = IF loader'.failed THEN ErrorDocument(l)
                                           ELSE ServerTranslation(l)
                       /\ OthersUnchanged(l)]_vars

(* A refresh of sv made while sv was cached at time 0 has fetched at a     *)
(* later time, within the TTL of the old entry; the entry of en is still   *)
(* the one of time 0.                                                      *)
C39_Witness ==
    /\ loader.pc = "refreshed"
    /\ loader.locale = "sv"
    /\ ~loader.failed
    /\ loader.cache["sv"].present
    /\ loader.cache["sv"].timestamp > 0
    /\ loader.cache["sv"].timestamp < TranslatorCacheTTL
    /\ loader.cache["en"].present
    /\ loader.cache["en"].timestamp = 0

(* C40: when two generateTranslation runs for different locales overlap    *)
(* and no storage call fails, updateMetadata's upload of one run keeps     *)
(* the sourceHash entry that the other run wrote: the entry of every       *)
(* other locale in metadata.json is the same after the upload as before.   *)
C40_MetadataKeepsBothLocales ==
    [][\A g \in Generators :
          ( /\ generator[g].pc = "metadata_write"
            /\ generator'[g].pc = "done"
            /\ deviations' = 0 )
          => \A l \in Locales \ {generator[g].locale} :
                metadata'.translations[l] = metadata.translations[l]]_vars

====
